---- MODULE Spec2Model ----
(***************************************************************************)
(* Model of eltako-windsensor-ws.c: an Arduino Uno (ATmega328P) sketch     *)
(* that counts the falling edges of a wind sensor in the interrupt         *)
(* routine countPulse() and reports the tally of every measurement window  *)
(* from loop().                                                            *)
(*                                                                         *)
(* Time is counted in ticks of the millisecond clock that millis() reads.  *)
(* The widths and durations are scaled down so that the clock wraps and    *)
(* several windows pass within the state space; every formula is stated    *)
(* in terms of the names, never of the scaled numbers.                     *)
(***************************************************************************)
EXTENDS Integers, Sequences, FiniteSets

\* ------------------------------------------------------------ bounds
\* Largest value of the millisecond clock (ULONG_MAX = 4294967295 on the
\* board); the clock is an unsigned long and wraps from ULONG_MAX to 0.
ULONG_MAX == 12

\* Largest value of an unsigned int (UINT_MAX = 65535 on the board).
UINT_MAX == 7

\* debounceDelayMillis (10 in the sketch).
debounceDelayMillis == 2

\* measurementDelaySeconds (60 in the sketch).
measurementDelaySeconds == 1

\* Milliseconds per second: the literal 1000 of lines 84 and 166.
MillisPerSecond == 4

\* ------------------------------------------------- program constants
\* Seconds per minute: the literal 60 of line 173.
SecondsPerMinute == 60

\* The sketch's own configuration, for what is computed from it alone:
\* measurementDelaySeconds (line 45), debounceDelayMillis (line 71), the
\* literal 1000 (line 84) and the largest unsigned int (line 53).
SketchMeasurementDelaySeconds == 60
SketchDebounceDelayMillis == 10
SketchMillisPerSecond == 1000
SketchUintMax == 65535

\* Bits of the significand of an AVR float (IEEE 754 binary32).
FloatMantissaBits == 24

VARIABLES
    \* the sketch's globals
    pulseCount, lastPulse, ledState,
    \* the main program's position and loop()'s locals
    pc, pulsesPerSecond, pulsesPerMinute,
    \* the board: LED pin, global interrupt enable (SREG I bit), INT0 enabled
    \* for the pin (EIMSK), latched INT0 request (EIFR INTF0), millis() clock,
    \* milliseconds delay() has waited, lines of the latest report
    ledPin, interruptsEnabled, attached, intFlag, clock, waited, Serial,
    \* history of the edges and of the windows
    sinceAccept, gap, sinceEdge, spacing, chainAccepted, acceptAges,
    acceptedInWindow, edgeInWindow, fromLatch, tallyAtDisarm, prevTally,
    prevWarned, flipsInWindow, acceptedOdd,
    \* the edge pattern replayed in every window, and what is left of it
    pattern, todo

progVars == <<pulseCount, lastPulse, ledState, pc, pulsesPerSecond,
              pulsesPerMinute, ledPin, interruptsEnabled, attached, intFlag,
              clock, waited, Serial>>
histVars == <<sinceAccept, gap, sinceEdge, spacing, chainAccepted, acceptAges,
              acceptedInWindow, edgeInWindow, fromLatch, tallyAtDisarm,
              prevTally, prevWarned, flipsInWindow, acceptedOdd>>
vars == <<progVars, histVars, pattern, todo>>

\* ------------------------------------------------------ float arithmetic
\* A float is <<m, e>>, the value m * 2^e with 2^23 <= m < 2^24, or Zero.
\* Every operation rounds its exact result to the nearest float, ties to even.
RECURSIVE Pow2(_)
Pow2(n) == IF n = 0 THEN 1 ELSE 2 * Pow2(n - 1)

MantissaMin == Pow2(FloatMantissaBits - 1)
MantissaMax == Pow2(FloatMantissaBits)
Zero == <<0, 0>>

\* The float of n * 2^e for an integer 0 < n < 2^31.
RECURSIVE RoundInt(_, _)
RoundInt(n, e) ==
    IF n < MantissaMin THEN RoundInt(2 * n, e - 1)
    ELSE IF n < MantissaMax THEN <<n, e>>
    ELSE IF n < 2 * MantissaMax
         THEN LET q == n \div 2
                  up == n % 2 = 1 /\ q % 2 = 1
                  q2 == IF up THEN q + 1 ELSE q
              IN  IF q2 = MantissaMax THEN <<MantissaMin, e + 2>>
                                      ELSE <<q2, e + 1>>
    ELSE IF n < 4 * MantissaMax
         THEN LET q == n \div 4
                  r == n % 4
                  up == r > 2 \/ (r = 2 /\ q % 2 = 1)
                  q2 == IF up THEN q + 1 ELSE q
              IN  IF q2 = MantissaMax THEN <<MantissaMin, e + 3>>
                                      ELSE <<q2, e + 2>>
         \* more than two bits to drop: the dropped bit stays as a sticky bit
         ELSE LET q == n \div 2
                  sticky == IF n % 2 = 1 /\ q % 2 = 0 THEN q + 1 ELSE q
              IN  RoundInt(sticky, e + 1)

\* (float)n for an unsigned integer n.
FloatOfInt(n) == IF n = 0 THEN Zero ELSE RoundInt(n, 0)

\* x * k for a float x and a small integer k (k is exact as a float).
FMulInt(x, k) == IF x[1] = 0 \/ k = 0 THEN Zero ELSE RoundInt(x[1] * k, x[2])

\* x * 0.5f: exact.
FHalf(x) == IF x[1] = 0 THEN Zero ELSE <<x[1], x[2] - 1>>

\* k further bits of the quotient of r / d, after the bits q: <<bits, rest>>.
RECURSIVE DivBits(_, _, _, _)
DivBits(q, r, d, k) ==
    IF k = 0 THEN <<q, r>>
    ELSE IF 2 * r >= d THEN DivBits(2 * q + 1, 2 * r - d, d, k - 1)
                       ELSE DivBits(2 * q, 2 * r, d, k - 1)

\* x / y for floats x >= 0 and y > 0.
FDiv(x, y) ==
    IF x[1] = 0 THEN Zero
    ELSE LET big == x[1] >= y[1]
             n == IF big THEN x[1] ELSE 2 * x[1]
             e == IF big THEN x[2] - y[2] ELSE x[2] - y[2] - 1
             qr == DivBits(1, n - y[1], y[1], FloatMantissaBits - 1)
             q == qr[1]
             r == qr[2]
             up == 2 * r > y[1] \/ (2 * r = y[1] /\ q % 2 = 1)
             q2 == IF up THEN q + 1 ELSE q
         IN  IF q2 = MantissaMax
             THEN <<MantissaMin, e - (FloatMantissaBits - 1) + 1>>
             ELSE <<q2, e - (FloatMantissaBits - 1)>>

\* x > y and x >= y for floats x, y >= 0.
FGt(x, y) ==
    IF x[1] = 0 THEN FALSE
    ELSE IF y[1] = 0 THEN TRUE
    ELSE x[2] > y[2] \/ (x[2] = y[2] /\ x[1] > y[1])

FGe(x, y) == x = y \/ FGt(x, y)

\* ------------------------------------------------------------- globals
\* ((float)1000 / debounceDelayMillis) * 0.5f
MaxImpulsesPerSecondOf(millisPerSecond, debounce) ==
    FHalf(FDiv(FloatOfInt(millisPerSecond), FloatOfInt(debounce)))

\* const float maxImpulsesPerSecond = ((float)1000 / debounceDelayMillis) * 0.5f
maxImpulsesPerSecond ==
    MaxImpulsesPerSecondOf(MillisPerSecond, debounceDelayMillis)

\* The same with the sketch's own numbers.
SketchMaxImpulsesPerSecond ==
    MaxImpulsesPerSecondOf(SketchMillisPerSecond, SketchDebounceDelayMillis)

\* The argument of delay(): (unsigned long)measurementDelaySeconds * 1000.
WindowMillis == measurementDelaySeconds * MillisPerSecond

\* ---------------------------------------------------------- countPulse()
\* The elapsed time countPulse() computes from time = millis() and lastPulse.
TimeSinceLastPulse(time, last) ==
    IF time >= last THEN time - last
                    ELSE (ULONG_MAX - last) + time

\* Faulty variant: the comparison made strict.
DebouncedStrict(timeSinceLastPulse) == timeSinceLastPulse < debounceDelayMillis

\* if(timeSinceLastPulse <= debounceDelayMillis) return;
Debounced(timeSinceLastPulse) == timeSinceLastPulse <= debounceDelayMillis

\* Faulty variant: the time of the accepted pulse is not stored.
AcceptedLastPulseKept(time, last) == last

\* lastPulse = time;
AcceptedLastPulse(time, last) == time

\* Faulty variant: the counter stays at its largest value.
IncrementedSaturating(count) == IF count = UINT_MAX THEN count ELSE count + 1

\* ++pulseCount; on an unsigned int.
Incremented(count) == (count + 1) % (UINT_MAX + 1)

\* Faulty variant: every pulse switches the indicator on.
ToggledHigh(state) == "HIGH"

\* ledState = (ledState == HIGH ? LOW : HIGH);
Toggled(state) == IF state = "HIGH" THEN "LOW" ELSE "HIGH"

Min(a, b) == IF a <= b THEN a ELSE b

\* An age (in clock ticks, -1: nothing to age) one tick later; ages beyond
\* the debounce delay are all recorded as debounceDelayMillis + 1.
Aged(age) == IF age = -1 THEN -1 ELSE Min(age + 1, debounceDelayMillis + 1)

\* The main program is inside delay(), between interrupts() and noInterrupts().
InWindow == pc = "delay"

\* One execution of the interrupt routine. latched: the edge arrived while
\* interrupts were disabled and was held in INTF0 until they were enabled.
\* millis() is not updated during the routine: it reads one clock value.
countPulse(latched) ==
    LET time == clock
        timeSinceLastPulse == TimeSinceLastPulse(time, lastPulse)
        accepted == ~Debounced(timeSinceLastPulse)
        bounce == sinceEdge # -1 /\ sinceEdge <= debounceDelayMillis
        chained == bounce /\ edgeInWindow /\ InWindow
    IN  /\ IF accepted
           THEN /\ lastPulse' = AcceptedLastPulse(time, lastPulse)
                /\ pulseCount' = Incremented(pulseCount)
                /\ ledState' = Toggled(ledState)
                /\ ledPin' = Toggled(ledState)
           ELSE UNCHANGED <<lastPulse, pulseCount, ledState, ledPin>>
        \* history
        /\ sinceAccept' = IF accepted THEN 0 ELSE sinceAccept
        /\ gap' = IF accepted THEN sinceAccept ELSE gap
        /\ sinceEdge' = 0
        /\ spacing' = IF spacing # "spaced" THEN spacing
                      ELSE IF latched \/ ~InWindow \/ bounce THEN "bounced"
                      ELSE IF accepted THEN "spaced"
                      ELSE "suppressed"
        /\ chainAccepted' = Min(2, (IF chained THEN chainAccepted ELSE 0)
                                   + (IF accepted THEN 1 ELSE 0))
        /\ acceptAges' = IF accepted /\ Len(acceptAges) < 2
                         THEN <<0>> \o acceptAges ELSE acceptAges
        /\ acceptedInWindow' = IF accepted
                               THEN Min(acceptedInWindow + 1,
                                        UINT_MAX + WindowMillis + 2)
                               ELSE acceptedInWindow
        /\ edgeInWindow' = InWindow
        /\ fromLatch' = (fromLatch \/ (latched /\ accepted))
        /\ flipsInWindow' = IF ledState' # ledState
                            THEN Min(flipsInWindow + 1,
                                     UINT_MAX + WindowMillis + 2)
                            ELSE flipsInWindow
        /\ acceptedOdd' = IF accepted THEN ~acceptedOdd ELSE acceptedOdd

\* ------------------------------------------------------------ the board
\* An interrupt request is served before the main program goes on.
Pending == interruptsEnabled /\ intFlag

SetupPcs == {"attachInterrupt", "noInterrupts", "ledInit"}

\* A falling edge on the pin while interrupts are enabled: countPulse() runs.
FallingEdge ==
    /\ attached /\ interruptsEnabled /\ ~intFlag
    /\ countPulse(FALSE)
    /\ UNCHANGED <<pc, pulsesPerSecond, pulsesPerMinute, interruptsEnabled,
                   attached, intFlag, clock, waited, Serial, tallyAtDisarm,
                   prevTally, prevWarned, pattern, todo>>

\* A falling edge while interrupts are disabled: the request is latched.
FallingEdgeLatched ==
    /\ attached /\ ~interruptsEnabled /\ ~intFlag
    /\ intFlag' = TRUE
    /\ UNCHANGED <<pulseCount, lastPulse, ledState, pc, pulsesPerSecond,
                   pulsesPerMinute, ledPin, interruptsEnabled, attached,
                   clock, waited, Serial, histVars, pattern, todo>>

\* The latched request is served once interrupts are enabled again.
ServiceInterrupt ==
    /\ Pending
    /\ intFlag' = FALSE
    /\ countPulse(TRUE)
    /\ UNCHANGED <<pc, pulsesPerSecond, pulsesPerMinute, interruptsEnabled,
                   attached, clock, waited, Serial, tallyAtDisarm,
                   prevTally, prevWarned, pattern, todo>>

RECURSIVE AgedAll(_)
AgedAll(ages) ==
    IF ages = <<>> THEN <<>>
    ELSE IF Head(ages) + 1 > debounceDelayMillis THEN AgedAll(Tail(ages))
    ELSE <<Head(ages) + 1>> \o AgedAll(Tail(ages))

\* One millisecond passes: the timer interrupt advances the clock of
\* millis(), which it can do only while interrupts are enabled. setup() is
\* over long before the first millisecond; in loop() the time passes in
\* delay().
Tick ==
    /\ interruptsEnabled /\ ~intFlag
    /\ pc \notin SetupPcs
    /\ InWindow => (waited < WindowMillis /\ waited \notin todo)
    /\ clock' = (clock + 1) % (ULONG_MAX + 1)
    /\ waited' = IF InWindow THEN waited + 1 ELSE waited
    /\ sinceAccept' = Aged(sinceAccept)
    /\ sinceEdge' = Aged(sinceEdge)
    /\ acceptAges' = AgedAll(acceptAges)
    /\ UNCHANGED <<pulseCount, lastPulse, ledState, pc, pulsesPerSecond,
                   pulsesPerMinute, ledPin, interruptsEnabled, attached,
                   intFlag, Serial, gap, spacing, chainAccepted,
                   acceptedInWindow, edgeInWindow, fromLatch, tallyAtDisarm,
                   prevTally, prevWarned, flipsInWindow, acceptedOdd,
                   pattern, todo>>

\* ---------------------------------------------------------------- setup()
\* Faulty variant: the call that disables the interrupts is missing.
IBitLeftSet == TRUE

\* The I bit of the status register after noInterrupts() and interrupts().
IBitAfterSetup == FALSE
IBitAfterDisarm == FALSE
IBitAfterArm == TRUE

\* Serial.begin, pinMode and attachInterrupt(..., countPulse, FALLING).
setupAttach ==
    /\ pc = "attachInterrupt" /\ ~Pending
    /\ attached' = TRUE
    /\ pc' = "noInterrupts"
    /\ UNCHANGED <<pulseCount, lastPulse, ledState, pulsesPerSecond,
                   pulsesPerMinute, ledPin, interruptsEnabled, intFlag,
                   clock, waited, Serial, histVars, pattern, todo>>

\* noInterrupts();
setupNoInterrupts ==
    /\ pc = "noInterrupts" /\ ~Pending
    /\ interruptsEnabled' = IBitAfterSetup
    /\ pc' = "ledInit"
    /\ UNCHANGED <<pulseCount, lastPulse, ledState, pulsesPerSecond,
                   pulsesPerMinute, ledPin, attached, intFlag, clock, waited,
                   Serial, histVars, pattern, todo>>

\* pinMode(LED_BUILTIN, OUTPUT); digitalWrite(LED_BUILTIN, ledState);
setupLed ==
    /\ pc = "ledInit" /\ ~Pending
    /\ ledPin' = ledState
    /\ pc' = "reset"
    /\ UNCHANGED <<pulseCount, lastPulse, ledState, pulsesPerSecond,
                   pulsesPerMinute, interruptsEnabled, attached, intFlag,
                   clock, waited, Serial, histVars, pattern, todo>>

\* ----------------------------------------------------------------- loop()
\* Faulty variant: the tally is not reset.
ResetCountKept(count) == count

\* pulseCount = 0;
ResetCount(count) == 0

loopReset ==
    /\ pc = "reset" /\ ~Pending
    /\ pulseCount' = ResetCount(pulseCount)
    /\ pc' = "arm"
    /\ UNCHANGED <<lastPulse, ledState, pulsesPerSecond, pulsesPerMinute,
                   ledPin, interruptsEnabled, attached, intFlag, clock,
                   waited, Serial, histVars, pattern, todo>>

\* interrupts(); and the call of delay().
loopArm ==
    /\ pc = "arm" /\ ~Pending
    /\ interruptsEnabled' = IBitAfterArm
    /\ waited' = 0
    /\ pc' = "delay"
    /\ acceptedInWindow' = 0
    /\ edgeInWindow' = FALSE
    /\ fromLatch' = FALSE
    /\ flipsInWindow' = 0
    /\ todo' = pattern
    /\ UNCHANGED <<pulseCount, lastPulse, ledState, pulsesPerSecond,
                   pulsesPerMinute, ledPin, attached, intFlag, clock, Serial,
                   sinceAccept, gap, sinceEdge, spacing, chainAccepted,
                   acceptAges, tallyAtDisarm, prevTally, prevWarned,
                   acceptedOdd, pattern>>

\* delay() returns after the window; noInterrupts();
loopDisarm ==
    /\ pc = "delay" /\ ~Pending
    /\ waited = WindowMillis /\ waited \notin todo
    /\ interruptsEnabled' = IBitAfterDisarm
    /\ pc' = "pulsesPerSecond"
    /\ tallyAtDisarm' = pulseCount
    /\ prevTally' = tallyAtDisarm
    /\ UNCHANGED <<pulseCount, lastPulse, ledState, pulsesPerSecond,
                   pulsesPerMinute, ledPin, attached, intFlag, clock, waited,
                   Serial, sinceAccept, gap, sinceEdge, spacing,
                   chainAccepted, acceptAges, acceptedInWindow, edgeInWindow,
                   fromLatch, prevWarned, flipsInWindow, acceptedOdd,
                   pattern, todo>>

\* Faulty variant: the cast is missing and the division is the integer one.
PulsesPerSecondInteger(count, seconds) == FloatOfInt(count \div seconds)

\* (float)pulseCount / measurementDelaySeconds
PulsesPerSecondOver(count, seconds) ==
    FDiv(FloatOfInt(count), FloatOfInt(seconds))

\* (float)pulseCount*60 / measurementDelaySeconds
PulsesPerMinuteOver(count, seconds) ==
    FDiv(FMulInt(FloatOfInt(count), SecondsPerMinute), FloatOfInt(seconds))

\* The two rates of every tally with the window length of the model,
\* computed once.
PulsesPerSecondOfTally ==
    [count \in 0..UINT_MAX
        |-> PulsesPerSecondOver(count, measurementDelaySeconds)]

PulsesPerMinuteOfTally ==
    [count \in 0..UINT_MAX
        |-> PulsesPerMinuteOver(count, measurementDelaySeconds)]

PulsesPerSecond(count) == PulsesPerSecondOfTally[count]

PulsesPerMinute(count) == PulsesPerMinuteOfTally[count]

loopPulsesPerSecond ==
    /\ pc = "pulsesPerSecond" /\ ~Pending
    /\ pulsesPerSecond' = PulsesPerSecond(pulseCount)
    /\ pc' = "pulsesPerMinute"
    /\ UNCHANGED <<pulseCount, lastPulse, ledState, pulsesPerMinute, ledPin,
                   interruptsEnabled, attached, intFlag, clock, waited,
                   Serial, histVars, pattern, todo>>

loopPulsesPerMinute ==
    /\ pc = "pulsesPerMinute" /\ ~Pending
    /\ pulsesPerMinute' = PulsesPerMinute(pulseCount)
    /\ pc' = "report"
    /\ UNCHANGED <<pulseCount, lastPulse, ledState, pulsesPerSecond, ledPin,
                   interruptsEnabled, attached, intFlag, clock, waited,
                   Serial, histVars, pattern, todo>>

\* Faulty variant: the boundary excluded.
OverRangeStrict(perSecond) == FGt(perSecond, maxImpulsesPerSecond)

\* if(pulsesPerSecond >= maxImpulsesPerSecond)
OverRange(perSecond) == FGe(perSecond, maxImpulsesPerSecond)

WarningLine == <<"ERROR: Debounce delay too high for impulse speed!">>
SeparatorLine == <<"-----------------------------------------------">>

\* The least n with num * 10^n >= den: ceil(-log10(num / den)), num <= den.
RECURSIVE DecimalsBelowOne(_, _)
DecimalsBelowOne(num, den) ==
    IF num >= den THEN 0
    ELSE 1 + DecimalsBelowOne(num, (den + 9) \div 10)

\* The least n with num <= den * 10^n: ceil(log10(num / den)), num >= den.
RECURSIVE DigitsAboveOne(_, _)
DigitsAboveOne(num, den) ==
    IF num <= den THEN 0
    ELSE 1 + DigitsAboveOne(num, den * 10)

\* Faulty variant: the logarithm is cut to an integer before ceil(), as the C
\* library's abs() for int does, which gives one decimal fewer.
numberOfDecimalsCut(smallestNumber) ==
    LET m == smallestNumber[1]
        e == smallestNumber[2]
        n == IF e >= 0 THEN DigitsAboveOne(m * Pow2(e), 1)
             ELSE IF m >= Pow2(-e) THEN DigitsAboveOne(m, Pow2(-e))
             ELSE DecimalsBelowOne(m, Pow2(-e))
    IN  IF n = 0 THEN 0 ELSE n - 1

\* ceil(abs(log10(smallestNumber))) of a float > 0, by the value of the
\* logarithm (which is what the library's log10 gives unless the number
\* is within a rounding error of a power of ten other than 1).
numberOfDecimalsNeeded(smallestNumber) ==
    LET m == smallestNumber[1]
        e == smallestNumber[2]
    IN  IF e >= 0 THEN DigitsAboveOne(m * Pow2(e), 1)
        ELSE IF m >= Pow2(-e) THEN DigitsAboveOne(m, Pow2(-e))
        ELSE DecimalsBelowOne(m, Pow2(-e))

\* int displayedDecimals = numberOfDecimalsNeeded((float)1 / maxImpulsesPerSecond)
displayedDecimals ==
    numberOfDecimalsNeeded(FDiv(FloatOfInt(1), maxImpulsesPerSecond))

\* Faulty variant: the warning is printed before the values.
ReportLinesWarningFirst(count, perSecond, perMinute) ==
    (IF OverRange(perSecond) THEN <<WarningLine>> ELSE <<>>)
    \o <<<<"Pulses measured: ", count>>,
         <<"Pulses per second: ", perSecond, displayedDecimals>>,
         <<"Pulses per minute: ", perMinute, displayedDecimals>>,
         SeparatorLine>>

\* The lines loop() prints, from the tally it reads and the rates computed;
\* a rate is printed with displayedDecimals decimals.
ReportLines(count, perSecond, perMinute) ==
    <<<<"Pulses measured: ", count>>,
      <<"Pulses per second: ", perSecond, displayedDecimals>>,
      <<"Pulses per minute: ", perMinute, displayedDecimals>>>>
    \o (IF OverRange(perSecond) THEN <<WarningLine>> ELSE <<>>)
    \o <<SeparatorLine>>

\* The same with the sketch's own numbers.
SketchDisplayedDecimals ==
    numberOfDecimalsNeeded(FDiv(FloatOfInt(1), SketchMaxImpulsesPerSecond))

SketchReportLines(count, perSecond, perMinute) ==
    <<<<"Pulses measured: ", count>>,
      <<"Pulses per second: ", perSecond, SketchDisplayedDecimals>>,
      <<"Pulses per minute: ", perMinute, SketchDisplayedDecimals>>>>
    \o (IF FGe(perSecond, SketchMaxImpulsesPerSecond)
        THEN <<WarningLine>> ELSE <<>>)
    \o <<SeparatorLine>>

Warned(lines) == \E i \in 1..Len(lines) : lines[i] = WarningLine

\* Faulty variant: the over-range warning is a fatal error that halts.
AfterReportHalt(perSecond) == IF OverRange(perSecond) THEN "halt" ELSE "reset"

\* loop() returns after the separator line, whatever it printed, and the
\* core calls it again.
AfterReport(perSecond) == "reset"

loopReport ==
    /\ pc = "report" /\ ~Pending
    /\ Serial' = ReportLines(pulseCount, pulsesPerSecond, pulsesPerMinute)
    /\ prevWarned' = Warned(Serial)
    /\ pc' = AfterReport(pulsesPerSecond)
    /\ UNCHANGED <<pulseCount, lastPulse, ledState, pulsesPerSecond,
                   pulsesPerMinute, ledPin, interruptsEnabled, attached,
                   intFlag, clock, waited, sinceAccept, gap, sinceEdge,
                   spacing, chainAccepted, acceptAges, acceptedInWindow,
                   edgeInWindow, fromLatch, tallyAtDisarm, prevTally,
                   flipsInWindow, acceptedOdd, pattern, todo>>

\* ------------------------------------------------------- specifications
InitProgram ==
    /\ pulseCount = 0 /\ lastPulse = 0 /\ ledState = "LOW"
    /\ pc = "attachInterrupt"
    /\ pulsesPerSecond = Zero /\ pulsesPerMinute = Zero
    /\ ledPin = "LOW" /\ interruptsEnabled = TRUE /\ attached = FALSE
    /\ intFlag = FALSE /\ clock = 0 /\ waited = 0 /\ Serial = <<>>
    /\ sinceAccept = -1 /\ gap = -1 /\ sinceEdge = -1 /\ spacing = "spaced"
    /\ chainAccepted = 0 /\ acceptAges = <<>> /\ acceptedInWindow = 0
    /\ edgeInWindow = FALSE
    /\ fromLatch = FALSE /\ tallyAtDisarm = -1 /\ prevTally = -1
    /\ prevWarned = FALSE /\ flipsInWindow = 0 /\ acceptedOdd = FALSE
    /\ todo = {}

Init == InitProgram /\ pattern = {}

Next ==
    \/ setupAttach
    \/ setupNoInterrupts
    \/ setupLed
    \/ loopReset
    \/ loopArm
    \/ loopDisarm
    \/ loopPulsesPerSecond
    \/ loopPulsesPerMinute
    \/ loopReport
    \/ Tick
    \/ FallingEdge
    \/ FallingEdgeLatched
    \/ ServiceInterrupt

Spec == Init /\ [][Next]_vars

\* The main program: setup(), then loop() for ever.
MainStep ==
    \/ setupAttach
    \/ setupNoInterrupts
    \/ setupLed
    \/ loopReset
    \/ loopArm
    \/ loopDisarm
    \/ loopPulsesPerSecond
    \/ loopPulsesPerMinute
    \/ loopReport

\* The processor keeps executing the main program, time keeps passing (in
\* delay() the clock keeps ticking, however many edges arrive between two
\* ticks), and a pending interrupt request is served.
FairSpec ==
    Spec /\ WF_vars(MainStep) /\ WF_vars(Tick) /\ WF_vars(ServiceInterrupt)

\* The same edge pattern in every window: pattern holds the times, counted
\* from interrupts(), at which one falling edge arrives; no other edge does.
PatternEdge ==
    /\ InWindow /\ ~intFlag
    /\ waited \in todo
    /\ todo' = todo \ {waited}
    /\ countPulse(FALSE)
    /\ UNCHANGED <<pc, pulsesPerSecond, pulsesPerMinute, interruptsEnabled,
                   attached, intFlag, clock, waited, Serial, tallyAtDisarm,
                   prevTally, prevWarned, pattern>>

InitPattern == InitProgram /\ pattern \in SUBSET (0..WindowMillis)

NextPattern ==
    \/ setupAttach
    \/ setupNoInterrupts
    \/ setupLed
    \/ loopReset
    \/ loopArm
    \/ loopDisarm
    \/ loopPulsesPerSecond
    \/ loopPulsesPerMinute
    \/ loopReport
    \/ Tick
    \/ PatternEdge

SpecPattern == InitPattern /\ [][NextPattern]_vars

\* The computation and the report of loop() with the sketch's own numbers,
\* for every tally an unsigned int can hold at noInterrupts().
sketchPulsesPerSecond ==
    /\ pc = "pulsesPerSecond" /\ ~Pending
    /\ pulsesPerSecond'
          = PulsesPerSecondOver(pulseCount, SketchMeasurementDelaySeconds)
    /\ pc' = "pulsesPerMinute"
    /\ UNCHANGED <<pulseCount, lastPulse, ledState, pulsesPerMinute, ledPin,
                   interruptsEnabled, attached, intFlag, clock, waited,
                   Serial, histVars, pattern, todo>>

sketchPulsesPerMinute ==
    /\ pc = "pulsesPerMinute" /\ ~Pending
    /\ pulsesPerMinute'
          = PulsesPerMinuteOver(pulseCount, SketchMeasurementDelaySeconds)
    /\ pc' = "report"
    /\ UNCHANGED <<pulseCount, lastPulse, ledState, pulsesPerSecond, ledPin,
                   interruptsEnabled, attached, intFlag, clock, waited,
                   Serial, histVars, pattern, todo>>

sketchReport ==
    /\ pc = "report" /\ ~Pending
    /\ Serial' = SketchReportLines(pulseCount, pulsesPerSecond,
                                   pulsesPerMinute)
    /\ pc' = "reset"
    /\ UNCHANGED <<pulseCount, lastPulse, ledState, pulsesPerSecond,
                   pulsesPerMinute, ledPin, interruptsEnabled, attached,
                   intFlag, clock, waited, histVars, pattern, todo>>

InitSketch ==
    /\ pulseCount \in 0..SketchUintMax
    /\ lastPulse = 0 /\ ledState = "LOW"
    /\ pc = "pulsesPerSecond"
    /\ pulsesPerSecond = Zero /\ pulsesPerMinute = Zero
    /\ ledPin = "LOW" /\ interruptsEnabled = FALSE /\ attached = TRUE
    /\ intFlag = FALSE /\ clock = 0 /\ waited = 0 /\ Serial = <<>>
    /\ sinceAccept = -1 /\ gap = -1 /\ sinceEdge = -1 /\ spacing = "spaced"
    /\ chainAccepted = 0 /\ acceptAges = <<>> /\ acceptedInWindow = 0
    /\ edgeInWindow = FALSE
    /\ fromLatch = FALSE /\ tallyAtDisarm = pulseCount /\ prevTally = -1
    /\ prevWarned = FALSE /\ flipsInWindow = 0 /\ acceptedOdd = FALSE
    /\ pattern = {} /\ todo = {}

NextSketch ==
    \/ sketchPulsesPerSecond
    \/ sketchPulsesPerMinute
    \/ sketchReport

SpecSketch == InitSketch /\ [][NextSketch]_vars

\* loop() from a window that has just been armed, with any tally an
\* unsigned int can hold: what the pulses accepted so far in a window long
\* enough for them would have left in pulseCount.
InitTally ==
    /\ pulseCount \in 0..UINT_MAX
    /\ lastPulse = 0
    /\ ledState = (IF pulseCount % 2 = 1 THEN "HIGH" ELSE "LOW")
    /\ pc = "delay"
    /\ pulsesPerSecond = Zero /\ pulsesPerMinute = Zero
    /\ ledPin = ledState /\ interruptsEnabled = TRUE /\ attached = TRUE
    /\ intFlag = FALSE /\ clock = 0 /\ waited = 0 /\ Serial = <<>>
    /\ sinceAccept = -1 /\ gap = -1 /\ sinceEdge = -1 /\ spacing = "spaced"
    /\ chainAccepted = 0 /\ acceptAges = <<>>
    /\ acceptedInWindow = pulseCount
    /\ edgeInWindow = FALSE
    /\ fromLatch = FALSE /\ tallyAtDisarm = -1 /\ prevTally = -1
    /\ prevWarned = FALSE
    /\ flipsInWindow = pulseCount /\ acceptedOdd = (pulseCount % 2 = 1)
    /\ pattern = {} /\ todo = {}

NextTally ==
    \/ loopReset
    \/ loopArm
    \/ loopDisarm
    \/ loopPulsesPerSecond
    \/ loopPulsesPerMinute
    \/ loopReport
    \/ Tick
    \/ FallingEdge
    \/ FallingEdgeLatched
    \/ ServiceInterrupt

SpecTally == InitTally /\ [][NextTally]_vars

\* ---------------------------------------------------------------- claims
\* C1: any two accepted pulses are more than debounceDelayMillis of clock
\* time apart, also when the clock wrapped between them: when a pulse is
\* accepted, the time since the acceptance before it exceeds the delay.
C1_AcceptedApart == gap = -1 \/ gap > debounceDelayMillis

\* A pulse accepted after the clock wrapped since the pulse before it.
C1_Witness == gap > debounceDelayMillis /\ lastPulse <= debounceDelayMillis

\* C2: when every edge delivered to countPulse() within the windows comes
\* more than debounceDelayMillis after the edge before it, every edge, the
\* first included, is accepted.
C2_SpacedAllAccepted == spacing # "suppressed"

\* C3: the elapsed time countPulse() computes is the time that passed on the
\* clock, (now - lastPulse) modulo (ULONG_MAX + 1), on both sides of the wrap.
C3_ElapsedExact ==
    (attached /\ interruptsEnabled)
        => TimeSinceLastPulse(clock, lastPulse)
             = (clock - lastPulse + ULONG_MAX + 1) % (ULONG_MAX + 1)

\* C4: from interrupts() to the end of the report the tally is the number of
\* pulses countPulse() accepted since interrupts(), and so is the tally read
\* at noInterrupts(), whatever the earlier windows left behind.
C4_TallyIsAccepted ==
    /\ pc \in {"delay", "pulsesPerSecond", "pulsesPerMinute", "report"}
          => pulseCount = acceptedInWindow
    /\ pc \in {"pulsesPerSecond", "pulsesPerMinute", "report"}
          => tallyAtDisarm = acceptedInWindow

\* A window with pulses that follows a window with pulses has been read.
C4_Witness ==
    pc = "pulsesPerSecond" /\ tallyAtDisarm >= 1 /\ prevTally >= 1

\* C5: an edge that arrives while the interrupts are disabled is lost: no
\* pulse of a window's tally comes from it.
C5_DisarmedEdgeLost == ~fromLatch

\* C6: of a sequence of edges (of one window) each at most
\* debounceDelayMillis after the edge before it, at most one is accepted.
C6_ChainOnce == chainAccepted <= 1

\* C6, amended: of the edges within debounceDelayMillis after the first edge
\* of a sequence at most one is accepted: no two accepted pulses are aged
\* debounceDelayMillis or less at the same time.
C6_BurstOnce == Len(acceptAges) <= 1

\* An edge discarded within the debounce delay of an accepted pulse.
C6_Witness ==
    /\ Len(acceptAges) = 1 /\ acceptAges[1] > 0
    /\ sinceEdge = 0 /\ InWindow

\* C7: from noInterrupts() to the next interrupts() the tally is changed by
\* the reset alone, and the values of a report (tally, pulses per second,
\* pulses per minute) all come from the tally present at noInterrupts().
C7_ReportFromOneTally ==
    /\ pc \in {"pulsesPerSecond", "pulsesPerMinute", "report"}
          => pulseCount = tallyAtDisarm
    /\ pc \in {"pulsesPerMinute", "report"}
          => pulsesPerSecond = PulsesPerSecond(tallyAtDisarm)
    /\ pc = "report" => pulsesPerMinute = PulsesPerMinute(tallyAtDisarm)
    /\ (pc \in {"reset", "arm"} /\ tallyAtDisarm # -1)
          => Serial = ReportLines(tallyAtDisarm,
                                  PulsesPerSecond(tallyAtDisarm),
                                  PulsesPerMinute(tallyAtDisarm))
    /\ pc = "arm" => pulseCount = 0

\* A report is out while an edge that arrived during it waits in INTF0.
C7_Witness == pc = "reset" /\ tallyAtDisarm >= 1 /\ intFlag

\* C8: pulseCount is changed, other than by loop()'s reset, only inside a
\* window, between interrupts() and noInterrupts(); never in setup().
C8_CountedOnlyArmed ==
    [][(pulseCount' # pulseCount /\ ~(pc = "reset" /\ pc' = "arm"))
          => InWindow]_vars

\* A pulse counted inside a window, from an edge that was waiting in INTF0.
C8_Witness == InWindow /\ pulseCount >= 1 /\ fromLatch

\* C9: two consecutive windows with the same edge pattern report the same
\* tally (and so the same rates), the first window after start-up included.
C9_SamePatternSameTally ==
    (pc = "pulsesPerSecond" /\ prevTally # -1) => tallyAtDisarm = prevTally

\* C10: a report holds the over-range warning exactly when the tally of its
\* window divided by measurementDelaySeconds is at least
\* (1000 / debounceDelayMillis) * 0.5, whatever the report before it held.
C10_WarningIffOverRange ==
    (pc = "reset" /\ tallyAtDisarm # -1)
        => (Warned(Serial)
              <=> 2 * tallyAtDisarm * debounceDelayMillis
                    >= MillisPerSecond * measurementDelaySeconds)

\* The first report without the warning after a report with it.
C10_Witness ==
    pc = "reset" /\ tallyAtDisarm # -1 /\ prevWarned /\ ~Warned(Serial)

\* C11: the measurement cycle never ends: every window that is armed is
\* disarmed and reported, and every report, with the over-range warning or
\* without it, is followed by a new window.
C11_CycleGoesOn ==
    /\ InWindow ~> (pc = "report")
    /\ (pc = "report") ~> InWindow

\* A window is running after a report with the over-range warning.
C11_Witness == InWindow /\ waited > 0 /\ Warned(Serial)

\* The steps of the main program in the order of the code.
CycleOrder ==
    {<<"attachInterrupt", "noInterrupts">>, <<"noInterrupts", "ledInit">>,
     <<"ledInit", "reset">>, <<"reset", "arm">>, <<"arm", "delay">>,
     <<"delay", "pulsesPerSecond">>, <<"pulsesPerSecond", "pulsesPerMinute">>,
     <<"pulsesPerMinute", "report">>, <<"report", "reset">>}

\* Tally, pulses per second, pulses per minute, the warning if there is
\* one, the separator line.
InReportOrder(lines) ==
    /\ Len(lines) \in {4, 5}
    /\ lines[1][1] = "Pulses measured: "
    /\ lines[2][1] = "Pulses per second: "
    /\ lines[3][1] = "Pulses per minute: "
    /\ Len(lines) = 5 => lines[4] = WarningLine
    /\ lines[Len(lines)] = SeparatorLine

\* C12: the main program moves from reset to interrupts(), the wait,
\* noInterrupts(), the computation and the report, in this order; the one
\* report of a window is printed by the step from "report" to "reset", while
\* the interrupts are disabled, with its lines in the fixed order, and no
\* other step prints.
C12_CycleInOrder ==
    [][/\ pc' # pc => <<pc, pc'>> \in CycleOrder
       /\ Serial' # Serial => pc = "report"
       /\ (pc = "report" /\ pc' # pc)
             => /\ ~interruptsEnabled /\ ~interruptsEnabled'
                /\ InReportOrder(Serial')]_vars

\* The second report is out, with the warning, and the third window is not
\* armed yet.
C12_Witness ==
    /\ pc = "reset" /\ prevTally # -1 /\ ~interruptsEnabled
    /\ Len(Serial) = 5

\* C13: the pulses accepted in one window are at most
\* WindowMillis / debounceDelayMillis + 1, and the tally stays below the
\* largest unsigned int: it never wraps within a window. So it is with the
\* sketch's own numbers: 60000 / 10 + 1 is less than 65535.
C13_TallyBounded ==
    /\ acceptedInWindow <= WindowMillis \div debounceDelayMillis + 1
    /\ pulseCount < UINT_MAX
    /\ (SketchMeasurementDelaySeconds * SketchMillisPerSecond)
          \div SketchDebounceDelayMillis + 1 < SketchUintMax

\* A window read with as many pulses as fit: one every
\* debounceDelayMillis + 1 milliseconds, from the first millisecond on.
C13_Witness ==
    /\ pc = "pulsesPerSecond"
    /\ tallyAtDisarm = WindowMillis \div (debounceDelayMillis + 1) + 1

\* The product of the float x and the integer k is exactly the integer n.
TimesIs(x, k, n) ==
    IF x[1] = 0 THEN n = 0
    ELSE IF x[2] >= 0 THEN x[1] * Pow2(x[2]) * k = n
    ELSE /\ (x[1] * k) % Pow2(-x[2]) = 0
         /\ (x[1] * k) \div Pow2(-x[2]) = n

\* The product of the float x and the integer k is the integer n to within
\* k times half a unit in the last place of x.
TimesIsRounded(x, k, n) ==
    IF x[1] = 0 THEN n = 0
    ELSE LET exact == n * Pow2(-x[2])
             got == x[1] * k
         IN  /\ x[2] < 0
             /\ 2 * (got - exact) <= k
             /\ 2 * (exact - got) <= k

\* C14: for every tally, pulsesPerSecond * measurementDelaySeconds is the
\* tally and pulsesPerMinute * measurementDelaySeconds is the tally * 60.
C14_RatesExact ==
    /\ pc \in {"pulsesPerMinute", "report", "reset"}
          => TimesIs(pulsesPerSecond, SketchMeasurementDelaySeconds,
                     pulseCount)
    /\ pc \in {"report", "reset"}
          => TimesIs(pulsesPerMinute, SketchMeasurementDelaySeconds,
                     pulseCount * SecondsPerMinute)

\* C14, amended: pulsesPerMinute * measurementDelaySeconds is the
\* tally * 60 exactly (nothing is lost in the multiplication by 60), and
\* pulsesPerSecond * measurementDelaySeconds is the tally to within the
\* rounding of the one float division, exactly when the window length
\* divides the tally: 120 pulses in 60 s are 2.0 per second, 120.0 per minute.
C14_RatesRounded ==
    /\ pc \in {"pulsesPerMinute", "report", "reset"}
          => /\ TimesIsRounded(pulsesPerSecond,
                               SketchMeasurementDelaySeconds, pulseCount)
             /\ pulseCount % SketchMeasurementDelaySeconds = 0
                   => TimesIs(pulsesPerSecond,
                              SketchMeasurementDelaySeconds, pulseCount)
             /\ pulseCount = 120 => pulsesPerSecond = FloatOfInt(2)
    /\ pc \in {"report", "reset"}
          => /\ TimesIs(pulsesPerMinute, SketchMeasurementDelaySeconds,
                        pulseCount * SecondsPerMinute)
             /\ pulseCount = 120 => pulsesPerMinute = FloatOfInt(120)

\* The rates of the largest tally are computed, and those of one that the
\* window length does not divide.
C14_Witness ==
    /\ pc = "report"
    /\ pulseCount = SketchUintMax
    /\ pulseCount % SketchMeasurementDelaySeconds # 0

RECURSIVE Pow10(_)
Pow10(n) == IF n = 0 THEN 1 ELSE 10 * Pow10(n - 1)

\* ceil(|log10(num / den)|) for integers num, den > 0: the least n with
\* 10^n >= the larger of num / den and den / num.
CeilAbsLog10(num, den) ==
    LET big == IF num >= den THEN num ELSE den
        small == IF num >= den THEN den ELSE num
    IN  CHOOSE n \in 0..6 :
            /\ small * Pow10(n) >= big
            /\ n > 0 => small * Pow10(n - 1) < big

\* C15: both rate lines of a report are printed with
\* ceil(|log10(1 / maxImpulsesPerSecond)|) decimals, where
\* maxImpulsesPerSecond = (1000 / debounceDelayMillis) * 0.5, that is
\* 1 / maxImpulsesPerSecond = 2 * debounceDelayMillis / 1000; with
\* debounceDelayMillis = 10 these are 2 decimals.
C15_TwoDecimals ==
    pc = "reset"
        => /\ Serial[2][3] = CeilAbsLog10(2 * SketchDebounceDelayMillis,
                                          SketchMillisPerSecond)
           /\ Serial[3][3] = Serial[2][3]
           /\ Serial[2][3] = 2

\* A report with both rate lines is out.
C15_Witness ==
    /\ pc = "reset" /\ pulseCount = 120
    /\ Serial[2][1] = "Pulses per second: "
    /\ Serial[3][1] = "Pulses per minute: "

\* C16: a run of countPulse() that computes an elapsed time of at most
\* debounceDelayMillis changes nothing: pulseCount, lastPulse (so the
\* debounce interval is neither restarted nor extended), ledState and the
\* LED pin stay as they are.
C16_DiscardChangesNothing ==
    [][((FallingEdge \/ ServiceInterrupt)
           /\ TimeSinceLastPulse(clock, lastPulse) <= debounceDelayMillis)
          => UNCHANGED <<pulseCount, lastPulse, ledState, ledPin>>]_vars

\* An edge has been discarded exactly debounceDelayMillis after the pulse
\* accepted before it.
C16_Witness ==
    /\ InWindow /\ sinceEdge = 0 /\ pulseCount >= 1
    /\ sinceAccept = debounceDelayMillis

\* A run of countPulse() that accepts the edge.
Accepting ==
    /\ FallingEdge \/ ServiceInterrupt
    /\ TimeSinceLastPulse(clock, lastPulse) > debounceDelayMillis

C18_WrapsSilently ==
    [][/\ (Accepting /\ pulseCount = UINT_MAX)
             => /\ pulseCount' = 0
                /\ pc' = pc /\ Serial' = Serial
                /\ interruptsEnabled' = interruptsEnabled
       /\ (pc = "report" /\ pc' # pc)
             => LET wrapped == acceptedInWindow % (UINT_MAX + 1)
                IN  /\ pc' = "reset"
                    /\ Serial' = ReportLines(wrapped,
                                             PulsesPerSecond(wrapped),
                                             PulsesPerMinute(wrapped))]_vars

\* The report of a window in which the tally wrapped is out.
C18_Witness ==
    /\ pc = "reset" /\ acceptedInWindow > UINT_MAX
    /\ Serial[1] = <<"Pulses measured: ", acceptedInWindow - (UINT_MAX + 1)>>

\* C19: lastPulse and ledState are changed only by a run of countPulse()
\* that accepts an edge, inside a window: no step of loop() changes them, and
\* from noInterrupts() to the next interrupts() they stay as they are, so
\* the next window starts with the lastPulse of the one before.
C19_LastPulseCarriedOver ==
    [][(lastPulse' # lastPulse \/ ledState' # ledState)
          => /\ Accepting
             /\ InWindow /\ pc' = pc
             /\ lastPulse' = clock]_vars

\* A window has been armed that no pulse was accepted in yet, and lastPulse
\* is the time of a pulse of an earlier window.
C19_Witness ==
    /\ InWindow /\ acceptedInWindow = 0 /\ tallyAtDisarm >= 1
    /\ lastPulse > 0

\* C20: the indicator is flipped once for every accepted pulse and never
\* otherwise: the flips of ledState within a window are as many as the tally
\* read at noInterrupts(), ledState is HIGH exactly when the pulses accepted
\* since start-up are odd in number, and after setup() the LED pin shows
\* ledState in every state between two runs of countPulse().
C20_LedFollowsPulses ==
    /\ pc \in {"pulsesPerSecond", "pulsesPerMinute", "report"}
          => flipsInWindow = tallyAtDisarm
    /\ InWindow => flipsInWindow = pulseCount
    /\ ledState = "HIGH" <=> acceptedOdd
    /\ pc \notin SetupPcs => ledPin = ledState

\* A window with two pulses after a window with one: the indicator is back
\* on, three pulses after start-up.
C20_Witness ==
    /\ pc = "pulsesPerSecond" /\ tallyAtDisarm = 2 /\ prevTally = 1
    /\ ledState = "HIGH"

====
